---- MODULE Spec2Model ----
(***************************************************************************)
(* Model of server.js: a pool of Stockfish processes, the dataHandler that *)
(* decodes the engine's stdout chunks with two regular expressions, and    *)
(* the /api/bestmove handler that acquires an instance, drives one search  *)
(* with a stop timer, and releases the instance.                           *)
(*                                                                         *)
(* Text is modelled as TLA+ strings, one character at a time; pool indices *)
(* are 0-based as in the JavaScript.                                       *)
(***************************************************************************)
EXTENDS Integers, Sequences, FiniteSets, TLC

(***************************************************************************)
(* Bounds of the model.                                                    *)
(***************************************************************************)
MaxRequests == 2
\* the requests of the runs in which the engines always answer
MaxSaturating == 3
MaxInfo == 1
MaxChunks == 2
MaxLines == 4
\* line 8: MAX_ENGINES of the environment (4 when it is not set); the model
\* runs the pools of up to this many instances
maxEngines == 2

(***************************************************************************)
(* Program constants, with no environment variable set.                    *)
(***************************************************************************)
defaultDepth == 30
defaultMultiPv == 1
maxTimeLimit == 30000

\* JavaScript's NaN, kept apart from every number the model computes
NaN == -2147483647
null == "null"

(***************************************************************************)
(* Characters and strings.                                                 *)
(***************************************************************************)
CharAt(s, i) == SubSeq(s, i, i)

Min(a, b) == IF a <= b THEN a ELSE b
Max(a, b) == IF a >= b THEN a ELSE b

Digits == {"0", "1", "2", "3", "4", "5", "6", "7", "8", "9"}

DigitValue(c) ==
  CASE c = "0" -> 0 [] c = "1" -> 1 [] c = "2" -> 2 [] c = "3" -> 3
    [] c = "4" -> 4 [] c = "5" -> 5 [] c = "6" -> 6 [] c = "7" -> 7
    [] c = "8" -> 8 [] c = "9" -> 9

\* \w of a JavaScript regular expression
WordChars ==
  Digits \cup {"_"} \cup
  {"a", "b", "c", "d", "e", "f", "g", "h", "i", "j", "k", "l", "m",
   "n", "o", "p", "q", "r", "s", "t", "u", "v", "w", "x", "y", "z"} \cup
  {"A", "B", "C", "D", "E", "F", "G", "H", "I", "J", "K", "L", "M",
   "N", "O", "P", "Q", "R", "S", "T", "U", "V", "W", "X", "Y", "Z"}

\* [-\d] of the score value group
ScoreChars == Digits \cup {"-"}

\* the characters that . of a JavaScript regular expression does not match
LineTerminators == {"\n", "\r"}

\* white space skipped by parseInt and removed by trim
WhiteSpace == {" ", "\t", "\n", "\r"}

\* does the literal lit occur in s at position i
LitAt(s, i, lit) ==
  /\ i >= 1
  /\ i + Len(lit) - 1 <= Len(s)
  /\ SubSeq(s, i, i + Len(lit) - 1) = lit

\* the least element of a non-empty set of numbers
Least(S) == CHOOSE x \in S : \A y \in S : x <= y

\* the index just after the longest run of characters of class that starts at i
RECURSIVE RunEnd(_, _, _)
RunEnd(s, i, class) ==
  IF i <= Len(s) /\ CharAt(s, i) \in class
    THEN RunEnd(s, i + 1, class)
    ELSE i

\* the index just after the longest run of characters outside class
RECURSIVE RunEndNot(_, _, _)
RunEndNot(s, i, class) ==
  IF i <= Len(s) /\ CharAt(s, i) \notin class
    THEN RunEndNot(s, i + 1, class)
    ELSE i

\* String.prototype.includes
Includes(s, lit) == \E i \in 1..Len(s) : LitAt(s, i, lit)

RECURSIVE DigitsValue(_, _, _, _)
DigitsValue(s, i, j, acc) ==
  IF i >= j THEN acc
  ELSE DigitsValue(s, i + 1, j, acc * 10 + DigitValue(CharAt(s, i)))

\* parseInt(s): leading white space, an optional sign, then the longest run
\* of digits; NaN when there is no digit
ParseInt(s) ==
  LET a == RunEnd(s, 1, WhiteSpace)
      neg == LitAt(s, a, "-")
      b == IF neg \/ LitAt(s, a, "+") THEN a + 1 ELSE a
      c == RunEnd(s, b, Digits)
  IN IF c = b THEN NaN
     ELSE IF neg THEN 0 - DigitsValue(s, b, c, 0)
     ELSE DigitsValue(s, b, c, 0)

\* String.prototype.trim
Trim(s) ==
  LET kept == {j \in 1..Len(s) : CharAt(s, j) \notin WhiteSpace}
  IN IF kept = {} THEN ""
     ELSE SubSeq(s, Least(kept), CHOOSE x \in kept : \A y \in kept : y <= x)

\* String.prototype.split(' ')
RECURSIVE SplitFrom(_, _, _)
SplitFrom(s, i, start) ==
  IF i > Len(s) THEN << SubSeq(s, start, Len(s)) >>
  ELSE IF CharAt(s, i) = " "
    THEN << SubSeq(s, start, i - 1) >> \o SplitFrom(s, i + 1, i + 1)
    ELSE SplitFrom(s, i + 1, start)

Split(s) == SplitFrom(s, 1, 1)

(***************************************************************************)
(* The two regular expressions of dataHandler.                             *)
(***************************************************************************)
NoMatch == [ok |-> FALSE]

\* .*?pv (.+) : the first "pv " on the line, from q on, that a character
\* of the line follows; 0 when the line has none
PvStart(s, q) ==
  LET lineEnd == RunEndNot(s, q, LineTerminators)
      starts == {x \in q..(lineEnd - 1) :
                   /\ LitAt(s, x, "pv ")
                   /\ x + 3 <= Len(s)
                   /\ CharAt(s, x + 3) \notin LineTerminators}
  IN IF starts = {} THEN 0 ELSE Least(starts)

\* /info depth (\d+) seldepth \d+ multipv (\d+) score (cp|mate) ([-\d]+).*?pv (.+)/
\* tried at position i of s
MatchInfoAt(s, i) ==
  LET a == i + Len("info depth ")
      b == RunEnd(s, a, Digits)
      c == b + Len(" seldepth ")
      d == RunEnd(s, c, Digits)
      e == d + Len(" multipv ")
      f == RunEnd(s, e, Digits)
      g == f + Len(" score ")
      h == IF LitAt(s, g, "cp") THEN g + 2
           ELSE IF LitAt(s, g, "mate") THEN g + 4
           ELSE 0
      k == h + 1
      m == RunEnd(s, k, ScoreChars)
      q == PvStart(s, m)
      z == RunEndNot(s, q + 3, LineTerminators)
  IN IF /\ LitAt(s, i, "info depth ") /\ b > a
        /\ LitAt(s, b, " seldepth ") /\ d > c
        /\ LitAt(s, d, " multipv ") /\ f > e
        /\ LitAt(s, f, " score ") /\ h > 0
        /\ LitAt(s, h, " ") /\ m > k
        /\ q > 0
       THEN [ok |-> TRUE,
             currentDepth |-> SubSeq(s, a, b - 1),
             pvNum |-> SubSeq(s, e, f - 1),
             scoreType |-> SubSeq(s, g, h - 1),
             scoreValue |-> SubSeq(s, k, m - 1),
             pv |-> SubSeq(s, q + 3, z - 1),
             end |-> z]
       ELSE NoMatch

\* text.match(/.../g): the matches of the expression in s, left to right,
\* each sought after the end of the one before
RECURSIVE MatchesFrom(_, _, _)
MatchesFrom(s, starts, i) ==
  LET later == {x \in starts : x >= i}
  IN IF later = {} THEN << >>
     ELSE LET m == MatchInfoAt(s, Least(later))
          IN << m >> \o MatchesFrom(s, starts, m.end)

MatchAllInfo(s, i) ==
  MatchesFrom(s, {x \in {y \in i..Len(s) : LitAt(s, y, "info depth ")} :
                    MatchInfoAt(s, x).ok}, i)

\* /bestmove (\w+)( ponder (\w+))?/ tried at position i of s
MatchBestmoveAt(s, i) ==
  LET a == i + Len("bestmove ")
      b == RunEnd(s, a, WordChars)
      c == b + Len(" ponder ")
      d == RunEnd(s, c, WordChars)
  IN IF LitAt(s, i, "bestmove ") /\ b > a
       THEN [ok |-> TRUE,
             move |-> SubSeq(s, a, b - 1),
             ponder |-> IF LitAt(s, b, " ponder ") /\ d > c
                          THEN SubSeq(s, c, d - 1)
                          ELSE null]
       ELSE NoMatch

\* text.match(/bestmove .../): the leftmost match in s
MatchBestmove(s, i) ==
  LET starts == {x \in {y \in i..Len(s) : LitAt(s, y, "bestmove ")} :
                   MatchBestmoveAt(s, x).ok}
  IN IF starts = {} THEN NoMatch ELSE MatchBestmoveAt(s, Least(starts))

(***************************************************************************)
(* dataHandler of getBestMove: the closure state of one request is         *)
(* [analysis, resolved, result].                                           *)
(***************************************************************************)
\* parseInt(scoreValue) / 100, kept as an exact quotient
Quotient(n, d) ==
  IF n = NaN THEN "NaN" ELSE ToString(n) \o "/" \o ToString(d)

AnalysisEntry(m) ==
  [depth |-> ParseInt(m.currentDepth),
   multipv |-> ParseInt(m.pvNum),
   score |-> [type |-> m.scoreType,
              value |-> ParseInt(m.scoreValue),
              readable |-> IF m.scoreType = "cp"
                             THEN Quotient(ParseInt(m.scoreValue), 100)
                             ELSE "mate " \o m.scoreValue],
   pv |-> Split(Trim(m.pv))]

\* analysis.findIndex(a => a.multipv === n): 0 stands for -1
RECURSIVE FindIndexFrom(_, _, _)
FindIndexFrom(analysis, n, k) ==
  IF k > Len(analysis) THEN 0
  ELSE IF analysis[k].multipv = n THEN k
  ELSE FindIndexFrom(analysis, n, k + 1)

FindIndex(analysis, n) == FindIndexFrom(analysis, n, 1)

\* a handler that would push every line, the entry of its multipv or not
PushEntry(analysis, entry) == Append(analysis, entry)

\* a handler that would keep the first entry of a multipv
KeepFirstEntry(analysis, entry) ==
  IF FindIndex(analysis, entry.multipv) >= 1 THEN analysis
  ELSE Append(analysis, entry)

\* update the entry of the same multipv, or add one
UpsertEntry(analysis, entry) ==
  LET existingIndex == FindIndex(analysis, entry.multipv)
  IN IF existingIndex >= 1
       THEN [analysis EXCEPT ![existingIndex] = entry]
       ELSE Append(analysis, entry)

\* multipvMatches.forEach(...)
RECURSIVE ForEachMatch(_, _, _)
ForEachMatch(analysis, matches, k) ==
  IF k > Len(matches) THEN analysis
  ELSE ForEachMatch(UpsertEntry(analysis, AnalysisEntry(matches[k])), matches, k + 1)

\* analysis.sort((a, b) => a.multipv - b.multipv), a stable sort
RECURSIVE InsertSorted(_, _)
InsertSorted(sorted, entry) ==
  IF sorted = << >> THEN << entry >>
  ELSE IF sorted[Len(sorted)].multipv <= entry.multipv
    THEN Append(sorted, entry)
    ELSE Append(InsertSorted(SubSeq(sorted, 1, Len(sorted) - 1), entry),
                sorted[Len(sorted)])

RECURSIVE SortByMultipv(_)
SortByMultipv(analysis) ==
  IF analysis = << >> THEN << >>
  ELSE InsertSorted(SortByMultipv(SubSeq(analysis, 1, Len(analysis) - 1)),
                    analysis[Len(analysis)])

NewHandler == [analysis |-> << >>, resolved |-> FALSE, result |-> null]

\* what the two expressions of dataHandler find in a chunk
Decode(text) ==
  [multipvMatches |-> MatchAllInfo(text, 1), moveMatch |-> MatchBestmove(text, 1)]

\* one call of dataHandler on what the expressions found in the chunk; depth
\* is getBestMove's argument
HandleMatches(st, found, depth) ==
  LET analysis == ForEachMatch(st.analysis, found.multipvMatches, 1)
      sorted == SortByMultipv(analysis)
  IN IF found.moveMatch.ok
       THEN [analysis |-> sorted,
             resolved |-> TRUE,
             result |-> [bestMove |-> [move |-> found.moveMatch.move,
                                       ponder |-> found.moveMatch.ponder],
                         analysis |-> sorted,
                         depth |-> IF Len(sorted) > 0 THEN sorted[1].depth
                                   ELSE depth]]
       ELSE [analysis |-> analysis, resolved |-> FALSE, result |-> null]

\* one call of dataHandler with the chunk text
dataHandler(st, text, depth) == HandleMatches(st, Decode(text), depth)

(***************************************************************************)
(* HUMAN_SIMULATION and the parameters of a request.  A request body is a  *)
(* record that holds the keys the caller sent.                             *)
(***************************************************************************)
\* Math.min and Math.max: NaN when an argument is NaN
MathMin(a, b) == IF a = NaN \/ b = NaN THEN NaN ELSE Min(a, b)
MathMax(a, b) == IF a = NaN \/ b = NaN THEN NaN ELSE Max(a, b)

skillLevels ==
  [beginner |-> [minDepth |-> 8, maxDepth |-> 12, skillLevel |-> 8,
                 errorRate |-> 35, minTime |-> 800, maxTime |-> 2000],
   intermediate |-> [minDepth |-> 15, maxDepth |-> 20, skillLevel |-> 14,
                     errorRate |-> 15, minTime |-> 1500, maxTime |-> 4000],
   advanced |-> [minDepth |-> 20, maxDepth |-> 25, skillLevel |-> 20,
                 errorRate |-> 5, minTime |-> 2000, maxTime |-> 5000],
   expert |-> [minDepth |-> 25, maxDepth |-> 30, skillLevel |-> 25,
               errorRate |-> 1, minTime |-> 3000, maxTime |-> 6000],
   master |-> [minDepth |-> 30, maxDepth |-> 35, skillLevel |-> 30,
               errorRate |-> 0, minTime |-> 3500, maxTime |-> 7000]]

\* a lookup that would put each boundary in the tier above
TierBelow(skillLevel) ==
  IF skillLevel < 8 THEN "beginner"
  ELSE IF skillLevel < 15 THEN "intermediate"
  ELSE IF skillLevel < 22 THEN "advanced"
  ELSE IF skillLevel < 28 THEN "expert"
  ELSE "master"

\* the name of the tier of a skill level
TierOf(skillLevel) ==
  IF skillLevel <= 8 THEN "beginner"
  ELSE IF skillLevel <= 15 THEN "intermediate"
  ELSE IF skillLevel <= 22 THEN "advanced"
  ELSE IF skillLevel <= 28 THEN "expert"
  ELSE "master"

getConfigForSkill(skillLevel) == skillLevels[TierOf(skillLevel)]

\* the draws of Math.random() the model takes, in tenths
RandomTenths == {0, 5, 9}

\* fen.split(' ')[0] with every digit run replaced by that many spaces and
\* every slash removed
RECURSIVE ExpandPlacement(_, _)
ExpandPlacement(s, i) ==
  IF i > Len(s) \/ CharAt(s, i) = " " THEN << >>
  ELSE IF CharAt(s, i) \in Digits
    THEN LET j == RunEnd(s, i, Digits)
         IN [k \in 1..DigitsValue(s, i, j, 0) |-> " "] \o ExpandPlacement(s, j)
  ELSE IF CharAt(s, i) = "/" THEN ExpandPlacement(s, i + 1)
  ELSE << CharAt(s, i) >> \o ExpandPlacement(s, i + 1)

\* the indices of the first and last character of pieces.trim()
RECURSIVE FirstPiece(_, _)
FirstPiece(pieces, i) ==
  IF i <= Len(pieces) /\ pieces[i] \in WhiteSpace
    THEN FirstPiece(pieces, i + 1) ELSE i

RECURSIVE LastPiece(_, _)
LastPiece(pieces, j) ==
  IF j >= 1 /\ pieces[j] \in WhiteSpace THEN LastPiece(pieces, j - 1) ELSE j

\* estimatePositionComplexity, in 960ths:
\* min(1, pieceCount / 32 * 0.7 + uniquePieceCount / 12 * 0.3)
estimatePositionComplexity(fen) ==
  LET pieces == ExpandPlacement(fen, 1)
      a == FirstPiece(pieces, 1)
      b == LastPiece(pieces, Len(pieces))
      pieceCount == IF a > b THEN 0 ELSE b - a + 1
      uniquePieceCount == Cardinality({pieces[k] : k \in 1..Len(pieces)})
  IN Min(960, pieceCount * 21 + uniquePieceCount * 24)

\* getThinkingTime with Math.random() = random / 10 and the complexity in
\* 960ths: floor((minTime + random * (maxTime - minTime)) * (0.7 + c * 0.6))
getThinkingTime(skillLevel, positionComplexity, random) ==
  LET config == getConfigForSkill(skillLevel)
      baseTime == config.minTime
      maxVariation == config.maxTime - config.minTime
  IN ((baseTime * 10 + random * maxVariation) * (1120 + positionComplexity))
       \div 16000

Has(body, key) == key \in DOMAIN body

\* const { fen, depth = defaultDepth, multiPv = defaultMultiPv, timeLimit,
\*         skillLevel = 20 } = req.body
BodyDepth(body) == IF Has(body, "depth") THEN body.depth ELSE defaultDepth
BodyMultiPv(body) == IF Has(body, "multiPv") THEN body.multiPv ELSE defaultMultiPv
BodySkillLevel(body) == IF Has(body, "skillLevel") THEN body.skillLevel ELSE 20

\* a validation that would only look for the key
FenAbsentOnly(body) == ~Has(body, "fen")

\* !fen
FenMissing(body) == ~Has(body, "fen") \/ body.fen = ""

\* parseInt of a number converts it to a string first
ParseIntOf(n) == ParseInt(ToString(n))

\* a depth that would be sent as the caller wrote it
UnclampedDepth(body) == ParseIntOf(BodyDepth(body))

actualDepth(body) ==
  LET humanConfig == getConfigForSkill(BodySkillLevel(body))
  IN MathMin(MathMax(humanConfig.minDepth, ParseIntOf(BodyDepth(body))),
             humanConfig.maxDepth)

actualMultiPv(body) == MathMin(MathMax(3, ParseIntOf(BodyMultiPv(body))), 5)

\* timeLimit ? Math.min(parseInt(timeLimit), maxTimeLimit) : thinkingTime
actualTimeLimit(body, random) ==
  IF Has(body, "timeLimit") /\ body.timeLimit # 0
    THEN MathMin(ParseIntOf(body.timeLimit), maxTimeLimit)
    ELSE getThinkingTime(BodySkillLevel(body),
                         estimatePositionComplexity(body.fen), random)

\* Math.random() < config.errorRate, the rate in hundredths
shouldMakeError(skillLevel, random) ==
  random * 10 < getConfigForSkill(skillLevel).errorRate

\* Math.min(alternativeMoves.length, Math.max(2, Math.floor(20 / skillLevel)))
AlternativeLimit(len, skillLevel) ==
  IF skillLevel = 0 THEN len
  ELSE IF skillLevel < 0 THEN Min(len, 2)
  ELSE Min(len, Max(2, 20 \div skillLevel))

selectSuboptimalMove(bestMove, analysis, skillLevel, random) ==
  IF Len(analysis) <= 1 THEN bestMove
  ELSE LET alternativeMoves == Tail(analysis)
           randomIndex ==
             (random * AlternativeLimit(Len(alternativeMoves), skillLevel)) \div 10
           alt == alternativeMoves[randomIndex + 1]
       IN IF Len(alt.pv) > 0
            THEN [move |-> alt.pv[1],
                  ponder |-> IF Len(alt.pv) >= 2 /\ alt.pv[2] # ""
                               THEN alt.pv[2] ELSE null]
            ELSE bestMove

(***************************************************************************)
(* The state.                                                              *)
(***************************************************************************)
VARIABLES
  enginePool,          \* index -> [busy]
  currentEngineIndex,  \* the rotating cursor
  isReady,             \* index -> the isReady flag of createStockfishInstance
  pendingResolve,      \* index -> the request whose resolve is pending, or 0
  stdin,               \* index -> the commands written to engine.stdin
  listeners,           \* index -> the requests whose dataHandler listens
  pc,                  \* request -> where its handler is
  reqBody,             \* request -> req.body as it was received
  req,                 \* request -> the handler's constants
  handler,             \* request -> the closure state of its dataHandler
  timeout,             \* request -> its stop timer
  response,            \* request -> what res.json or res.status sent
  heard,               \* request -> the searches whose output built its result
  resolvedAt,          \* request -> the length of stdin when it resolved, and the search that resolved it
  alive,               \* index -> the process runs
  consumed,            \* index -> how many commands the engine has read
  position,            \* index -> the position the engine holds
  multiPV,             \* index -> the engine's MultiPV option
  search,              \* index -> the search in progress
  pending              \* a transcript being decoded: the whole, the rest, the chunks left

nodeVars == << enginePool, currentEngineIndex, isReady, pendingResolve, stdin,
               listeners, pc, reqBody, req, handler, timeout, response, heard,
               resolvedAt >>
engineVars == << alive, consumed, position, multiPV, search >>
vars == << nodeVars, engineVars, pending >>

Reqs == 1..Max(MaxRequests, MaxSaturating)

\* the state of the server process as one record
Node ==
  [enginePool |-> enginePool, currentEngineIndex |-> currentEngineIndex,
   isReady |-> isReady, pendingResolve |-> pendingResolve, stdin |-> stdin,
   listeners |-> listeners, pc |-> pc, reqBody |-> reqBody, req |-> req, handler |-> handler,
   timeout |-> timeout, response |-> response, heard |-> heard,
   resolvedAt |-> resolvedAt]

SetNode(N) ==
  /\ enginePool' = N.enginePool
  /\ currentEngineIndex' = N.currentEngineIndex
  /\ isReady' = N.isReady
  /\ pendingResolve' = N.pendingResolve
  /\ stdin' = N.stdin
  /\ listeners' = N.listeners
  /\ pc' = N.pc
  /\ reqBody' = N.reqBody
  /\ req' = N.req
  /\ handler' = N.handler
  /\ timeout' = N.timeout
  /\ response' = N.response
  /\ heard' = N.heard
  /\ resolvedAt' = N.resolvedAt

PoolLength(N) == Cardinality(DOMAIN N.enginePool)

\* a % n of JavaScript for a >= 0
JSMod(a, n) == IF a = NaN \/ n = 0 THEN NaN ELSE a % n

\* engine.stdin.write
Write(N, i, kind, arg, r) ==
  [N EXCEPT !.stdin[i] = Append(@, [kind |-> kind, arg |-> arg, by |-> r])]

\* the handshake createStockfishInstance writes
Handshake ==
  << [kind |-> "uci", arg |-> null, by |-> 0],
     [kind |-> "setoption", arg |-> [name |-> "Threads", value |-> 4], by |-> 0],
     [kind |-> "setoption", arg |-> [name |-> "Hash", value |-> 1024], by |-> 0],
     [kind |-> "setoption",
      arg |-> [name |-> "UCI_LimitStrength", value |-> FALSE], by |-> 0],
     [kind |-> "setoption", arg |-> [name |-> "Skill Level", value |-> 20], by |-> 0],
     [kind |-> "setoption", arg |-> [name |-> "Use NNUE", value |-> TRUE], by |-> 0],
     [kind |-> "setoption",
      arg |-> [name |-> "MultiPV", value |-> defaultMultiPv], by |-> 0],
     [kind |-> "setoption", arg |-> [name |-> "Ponder", value |-> FALSE], by |-> 0],
     [kind |-> "ucinewgame", arg |-> null, by |-> 0],
     [kind |-> "isready", arg |-> null, by |-> 0] >>

(***************************************************************************)
(* app.post('/api/bestmove'): acquiring an instance.                       *)
(***************************************************************************)
\* a scan that would look at the instance at the cursor alone
ScanFromCursorOnly(pool, cursor, i) ==
  IF Cardinality(DOMAIN pool) = 0 \/ pool[cursor].busy THEN -1 ELSE cursor

\* the for loop over the pool: the first free index from the cursor, or -1
RECURSIVE ScanFree(_, _, _)
ScanFree(pool, cursor, i) ==
  IF i >= Cardinality(DOMAIN pool) THEN -1
  ELSE LET idx == (cursor + i) % Cardinality(DOMAIN pool)
       IN IF ~pool[idx].busy THEN idx ELSE ScanFree(pool, cursor, i + 1)

\* lines 258-280: the instance chosen and the pool after engineInstance.busy =
\* true; threw when enginePool[engineIndex] is undefined
Acquire(N) ==
  LET found == ScanFree(N.enginePool, N.currentEngineIndex, 0)
      engineIndex == IF found >= 0 THEN found ELSE N.currentEngineIndex
      cursor == IF found >= 0
                  THEN JSMod(found + 1, PoolLength(N))
                  ELSE IF engineIndex = NaN THEN NaN
                  ELSE JSMod(engineIndex + 1, PoolLength(N))
      defined == engineIndex \in DOMAIN N.enginePool
  IN [threw |-> ~defined,
      engineIndex |-> engineIndex,
      node |-> [N EXCEPT
                  !.currentEngineIndex = cursor,
                  !.enginePool = IF defined
                                   THEN [@ EXCEPT ![engineIndex].busy = TRUE]
                                   ELSE @]]

\* a falsy number: 0 or NaN
Truthy(n) == n # 0 /\ n # NaN

\* getBestMove: the timer, the listener and the three commands
getBestMove(N, r) ==
  LET q == N.req[r]
      i == q.engineIndex
      N1 == [N EXCEPT !.timeout[r] = IF Truthy(q.timeLimit) THEN "armed" ELSE "unset",
                      !.handler[r] = NewHandler,
                      !.listeners[i] = Append(@, r)]
      N2 == Write(N1, i, "position", q.fen, r)
      N3 == Write(N2, i, "setoption", [name |-> "MultiPV", value |-> q.multiPv], r)
      N4 == Write(N3, i, "go",
                  IF Truthy(q.timeLimit)
                    THEN [depth |-> q.depth, movetime |-> q.timeLimit]
                    ELSE [depth |-> q.depth], r)
  IN [N4 EXCEPT !.pc[r] = "awaitBest"]

\* lines 285-296: what the handler does once isReady() has resolved
AfterReady(N, r) ==
  LET q == N.req[r]
      i == q.engineIndex
      humanConfig == getConfigForSkill(q.skillLevel)
      N1 == Write(N, i, "setoption",
                  [name |-> "Skill Level", value |-> humanConfig.skillLevel], r)
      N2 == Write(N1, i, "setoption",
                  [name |-> "UCI_LimitStrength", value |-> q.skillLevel < 30], r)
  IN getBestMove(N2, r)

\* lines 237-283: the handler from the request to its first suspension
PostBestmove(N, r, body, random) ==
  IF FenMissing(body)
    THEN [N EXCEPT !.pc[r] = "rejected", !.response[r] = [status |-> 400]]
    ELSE
      LET acq == Acquire(N)
          i == acq.engineIndex
          q == [fen |-> body.fen,
                skillLevel |-> BodySkillLevel(body),
                depth |-> actualDepth(body),
                multiPv |-> actualMultiPv(body),
                timeLimit |-> actualTimeLimit(body, random),
                positionComplexity |-> estimatePositionComplexity(body.fen),
                requested |-> [depth |-> BodyDepth(body),
                               multiPv |-> BodyMultiPv(body)],
                engineIndex |-> i]
      IN IF acq.threw
           THEN [acq.node EXCEPT !.pc[r] = "error",
                                 !.response[r] = [status |-> 500]]
           ELSE LET N1 == [acq.node EXCEPT !.req[r] = q]
                IN IF N1.isReady[i]
                     THEN AfterReady(N1, r)
                     ELSE [N1 EXCEPT !.pendingResolve[i] = r,
                                     !.pc[r] = "waitReady"]

\* lines 298-320: release, the simulated human error and the response
Release(N, r, errorRandom, indexRandom) ==
  LET q == N.req[r]
      i == q.engineIndex
      result == N.handler[r].result
      N1 == [N EXCEPT !.enginePool[i].busy = FALSE]
      N2 == Write(N1, i, "ucinewgame", null, r)
      N3 == Write(N2, i, "isready", null, r)
      isHumanError == /\ shouldMakeError(q.skillLevel, errorRandom)
                      /\ Len(result.analysis) > 1
  IN [N3 EXCEPT
        !.pc[r] = "done",
        !.response[r] =
          [status |-> 200,
           bestMove |-> IF isHumanError
                          THEN selectSuboptimalMove(result.bestMove, result.analysis,
                                                    q.skillLevel, indexRandom)
                          ELSE result.bestMove,
           analysis |-> result.analysis,
           depth |-> result.depth,
           isHumanError |-> isHumanError,
           humanSimulation |->
             [skillLevel |-> q.skillLevel,
              thinkingTime |-> q.timeLimit,
              positionComplexity |-> q.positionComplexity,
              errorRate |-> getConfigForSkill(q.skillLevel).errorRate]]]

(***************************************************************************)
(* A 'data' event of engine.stdout: the listener of                        *)
(* createStockfishInstance, then every dataHandler in the order they were  *)
(* added, then the continuations the event resolved, in that order.        *)
(***************************************************************************)
\* lines 136-147
ReadyListener(N, i, text) ==
  IF ~N.isReady[i] /\ Includes(text, "readyok")
    THEN [node |-> [N EXCEPT !.isReady[i] = TRUE, !.pendingResolve[i] = 0],
          resumed |-> IF N.pendingResolve[i] # 0
                        THEN << N.pendingResolve[i] >> ELSE << >>]
    ELSE [node |-> N, resumed |-> << >>]

Remove(seq, r) == SelectSeq(seq, LAMBDA x : x # r)

\* dataHandler of request r called with a chunk in which the expressions
\* found the matches; tag names the search that produced the chunk (0 when it
\* is no search output)
HandlerCall(N, i, r, found, tag) ==
  LET st == HandleMatches(N.handler[r], found, N.req[r].depth)
      matched == Len(found.multipvMatches) > 0 \/ found.moveMatch.ok
      N1 == [N EXCEPT !.handler[r] = st,
                      !.heard[r] = IF matched THEN @ \cup {tag} ELSE @]
  IN IF st.resolved
       THEN [N1 EXCEPT !.timeout[r] = IF @ = "armed" THEN "cleared" ELSE @,
                       !.listeners[i] = Remove(@, r),
                       !.resolvedAt[r] = [len |-> Len(N.stdin[i]), tag |-> tag]]
       ELSE N1

RECURSIVE EmitData(_, _, _, _, _, _)
EmitData(N, i, ls, k, found, tag) ==
  IF k > Len(ls) THEN N
  ELSE EmitData(HandlerCall(N, i, ls[k], found, tag), i, ls, k + 1, found, tag)

\* the state once every listener has run, and the requests it resolved
AfterEmit(N, i, text, tag) ==
  LET a == ReadyListener(N, i, text)
      ls == a.node.listeners[i]
      found == Decode(text)
      N1 == IF ls = << >> THEN a.node ELSE EmitData(a.node, i, ls, 1, found, tag)
  IN [node |-> IF a.resumed # << >> THEN AfterReady(N1, a.resumed[1]) ELSE N1,
      resolved |-> SelectSeq(ls, LAMBDA r : N1.handler[r].resolved)]

\* the resolved requests whose response depends on the draws of Math.random()
Degradable(e) ==
  {r \in {e.resolved[k] : k \in 1..Len(e.resolved)} :
     /\ Len(e.node.handler[r].result.analysis) > 1
     /\ getConfigForSkill(e.node.req[r].skillLevel).errorRate > 0}

RECURSIVE RunReleases(_, _, _, _)
RunReleases(N, rs, k, draws) ==
  IF k > Len(rs) THEN N
  ELSE LET r == rs[k]
           d == IF r \in DOMAIN draws THEN draws[r] ELSE << 9, 0 >>
       IN RunReleases(Release(N, r, d[1], d[2]), rs, k + 1, draws)

\* the states the event may end in, one for each draw of Math.random()
Outcomes(e) ==
  {RunReleases(e.node, e.resolved, 1, draws) :
     draws \in [Degradable(e) -> RandomTenths \X RandomTenths]}

\* the whole event
StdoutData(i, text, tag) ==
  \E N \in Outcomes(AfterEmit(Node, i, text, tag)) : SetNode(N)

(***************************************************************************)
(* The engine process: it reads its commands in order, answers isready     *)
(* with readyok, searches after go and ends a search with a bestmove line, *)
(* by itself or on stop.  A go waits for the search in progress.           *)
(***************************************************************************)
Fen1 == "rnbqkbnr/pppppppp/8/8/8/8/PPPPPPPP/RNBQKBNR w KQkq - 0 1"
Fen2 == "4k3/8/8/8/8/8/8/4K3 b - - 0 1"

\* the principal variations the engine finds, best first
EngineLines(fen) ==
  IF fen = Fen1
    THEN << "e2e4 e7e5", "d2d4 d7d5", "g1f3", "c2c4", "b1c3" >>
  ELSE IF fen = Fen2
    THEN << "e8d7 e1d2", "e8e7", "e8f7", "e8d8", "e8f8" >>
  ELSE << "a2a3", "a2a4", "b2b3", "b2b4", "c2c3" >>

InfoText(depth, p, fen) ==
  "info depth " \o ToString(depth) \o " seldepth " \o ToString(depth + 2)
    \o " multipv " \o ToString(p) \o " score cp " \o ToString(30 - 10 * p)
    \o " nodes 5 pv " \o EngineLines(fen)[p] \o "\n"

BestmoveText(fen) ==
  LET moves == Split(EngineLines(fen)[1])
  IN "bestmove " \o moves[1]
       \o (IF Len(moves) > 1 THEN " ponder " \o moves[2] ELSE "") \o "\n"

Idle == [active |-> FALSE]

Pool == DOMAIN enginePool

\* the commands the engine neither answers nor searches for
SilentKinds == {"uci", "setoption", "position", "ucinewgame"}

\* the index of the first command from k on that is not silent
RECURSIVE NextLoud(_, _)
NextLoud(cmds, k) ==
  IF k > Len(cmds) \/ cmds[k].kind \notin SilentKinds THEN k
  ELSE NextLoud(cmds, k + 1)

SetsPosition(cmd) == cmd.kind = "position"
SetsMultiPV(cmd) == cmd.kind = "setoption" /\ cmd.arg.name = "MultiPV"

\* the position after the commands k..m: the fen of the last position command
RECURSIVE LastPosition(_, _, _, _)
LastPosition(cmds, k, m, old) ==
  IF m < k THEN old
  ELSE IF SetsPosition(cmds[m]) THEN cmds[m].arg
  ELSE LastPosition(cmds, k, m - 1, old)

\* the MultiPV option after the commands k..m
RECURSIVE LastMultiPV(_, _, _, _)
LastMultiPV(cmds, k, m, old) ==
  IF m < k THEN old
  ELSE IF SetsMultiPV(cmds[m]) THEN cmds[m].arg.value
  ELSE LastMultiPV(cmds, k, m - 1, old)

\* the engine reads its commands up to the next one that it answers or that
\* starts or stops a search; a go is not read while a search is in progress
EngineRead(i) ==
  /\ alive[i]
  /\ consumed[i] < Len(stdin[i])
  /\ LET loud == NextLoud(stdin[i], consumed[i] + 1)
         blocked == /\ loud <= Len(stdin[i])
                    /\ stdin[i][loud].kind = "go"
                    /\ search[i].active
         last == IF blocked \/ loud > Len(stdin[i]) THEN loud - 1 ELSE loud
         kind == IF last = loud THEN stdin[i][loud].kind ELSE "none"
         fen == LastPosition(stdin[i], consumed[i] + 1, last, position[i])
         mpv == LastMultiPV(stdin[i], consumed[i] + 1, last, multiPV[i])
     IN /\ last > consumed[i]
        /\ consumed' = [consumed EXCEPT ![i] = last]
        /\ position' = [position EXCEPT ![i] = fen]
        /\ multiPV' = [multiPV EXCEPT ![i] = mpv]
        /\ search' = IF kind = "go"
                       THEN [search EXCEPT ![i] =
                               [active |-> TRUE, by |-> stdin[i][last].by,
                                fen |-> fen, depth |-> stdin[i][last].arg.depth,
                                multiPv |-> mpv, emitted |-> 0]]
                     ELSE IF kind = "stop"
                       THEN [search EXCEPT ![i] = Idle]
                     ELSE search
        /\ IF kind = "isready"
             THEN StdoutData(i, "readyok\n", 0)
           ELSE IF kind = "stop" /\ search[i].active
             THEN StdoutData(i, BestmoveText(search[i].fen), search[i].by)
           ELSE UNCHANGED nodeVars
  /\ UNCHANGED << alive, pending >>

\* a search in progress reports a line
EngineInfo(i) ==
  /\ alive[i]
  /\ search[i].active
  /\ search[i].emitted < MaxInfo
  /\ search' = [search EXCEPT ![i].emitted = @ + 1]
  /\ StdoutData(i, InfoText(search[i].depth,
                            (search[i].emitted % search[i].multiPv) + 1,
                            search[i].fen),
                search[i].by)
  /\ UNCHANGED << alive, consumed, position, multiPV, pending >>

\* a search in progress reaches its depth or its movetime
EngineBestmove(i) ==
  /\ alive[i]
  /\ search[i].active
  /\ search' = [search EXCEPT ![i] = Idle]
  /\ StdoutData(i, BestmoveText(search[i].fen), search[i].by)
  /\ UNCHANGED << alive, consumed, position, multiPV, pending >>

\* lines 149-155: the 'error' event of a process that could not be started
EngineError(i) ==
  /\ alive[i]
  /\ consumed[i] = 0
  /\ alive' = [alive EXCEPT ![i] = FALSE]
  /\ SetNode(IF pendingResolve[i] # 0
               THEN AfterReady([Node EXCEPT !.pendingResolve[i] = 0],
                               pendingResolve[i])
               ELSE Node)
  /\ UNCHANGED << consumed, position, multiPV, search, pending >>

\* lines 157-159: the process exits; the 'close' listener only logs
EngineClose(i) ==
  /\ alive[i]
  /\ alive' = [alive EXCEPT ![i] = FALSE]
  /\ UNCHANGED << nodeVars, consumed, position, multiPV, search, pending >>

(***************************************************************************)
(* The server.                                                             *)
(***************************************************************************)
\* the request bodies the model sends
Bodies ==
  { [fen |-> "", depth |-> 10],
    [fen |-> Fen1, timeLimit |-> 500],
    [fen |-> Fen2, timeLimit |-> 500, multiPv |-> 5] }

\* a request arrives with one of the bodies: the handler runs to its first
\* suspension
Arrive(r, bodies) ==
  /\ pc[r] = "idle"
  /\ r > 1 => pc[r - 1] # "idle"
  /\ \E body \in bodies, random \in RandomTenths :
       SetNode(PostBestmove([Node EXCEPT !.reqBody[r] = body], r, body, random))
  /\ UNCHANGED << engineVars, pending >>

Request(r) == r <= MaxRequests /\ Arrive(r, Bodies)

\* lines 337-340: the stop timer of a request fires
Timeout(r) ==
  /\ timeout[r] = "armed"
  /\ SetNode([Write(Node, req[r].engineIndex, "stop", null, r)
                EXCEPT !.timeout[r] = "fired"])
  /\ UNCHANGED << engineVars, pending >>

NoRequest ==
  [fen |-> "", skillLevel |-> 20, depth |-> 0, multiPv |-> 0, timeLimit |-> 0,
   positionComplexity |-> 0, requested |-> [depth |-> 0, multiPv |-> 0],
   engineIndex |-> 0]

\* lines 112-113 and 161-184: the server after the spawns, n of which succeeded
InitialNode(n) ==
  [enginePool |-> [i \in 0..(n - 1) |-> [busy |-> FALSE]],
   currentEngineIndex |-> 0,
   isReady |-> [i \in 0..(n - 1) |-> FALSE],
   pendingResolve |-> [i \in 0..(n - 1) |-> 0],
   stdin |-> [i \in 0..(n - 1) |-> Handshake],
   listeners |-> [i \in 0..(n - 1) |-> << >>],
   pc |-> [r \in Reqs |-> "idle"],
   reqBody |-> [r \in Reqs |-> [fen |-> ""]],
   req |-> [r \in Reqs |-> NoRequest],
   handler |-> [r \in Reqs |-> NewHandler],
   timeout |-> [r \in Reqs |-> "unset"],
   response |-> [r \in Reqs |-> [status |-> 0]],
   heard |-> [r \in Reqs |-> {}],
   resolvedAt |-> [r \in Reqs |-> [len |-> 0, tag |-> 0]]]

NodeIs(N) ==
  /\ enginePool = N.enginePool
  /\ currentEngineIndex = N.currentEngineIndex
  /\ isReady = N.isReady
  /\ pendingResolve = N.pendingResolve
  /\ stdin = N.stdin
  /\ listeners = N.listeners
  /\ pc = N.pc
  /\ reqBody = N.reqBody
  /\ req = N.req
  /\ handler = N.handler
  /\ timeout = N.timeout
  /\ response = N.response
  /\ heard = N.heard
  /\ resolvedAt = N.resolvedAt

NoTranscript == [whole |-> "", rest |-> "", chunks |-> 0, cuts |-> "none"]

Init ==
  /\ \E n \in 0..maxEngines :
       /\ NodeIs(InitialNode(n))
       /\ alive = [i \in 0..(n - 1) |-> TRUE]
       /\ consumed = [i \in 0..(n - 1) |-> 0]
       /\ position = [i \in 0..(n - 1) |-> "startpos"]
       /\ multiPV = [i \in 0..(n - 1) |-> 1]
       /\ search = [i \in 0..(n - 1) |-> Idle]
  /\ pending = NoTranscript

Next ==
  \/ \E r \in Reqs : Request(r)
  \/ \E r \in Reqs : Timeout(r)
  \/ \E i \in Pool : EngineRead(i)
  \/ \E i \in Pool : EngineInfo(i)
  \/ \E i \in Pool : EngineBestmove(i)
  \/ \E i \in Pool : EngineError(i)
  \/ \E i \in Pool : EngineClose(i)

Spec == Init /\ [][Next]_vars

(***************************************************************************)
(* The pool under more requests than it has instances: the engines start,  *)
(* keep running and answer every search with its bestmove line.            *)
(***************************************************************************)
PoolBodies == { [fen |-> Fen1, timeLimit |-> 500] }

PoolRequest(r) == r <= MaxSaturating /\ Arrive(r, PoolBodies)

PoolNext ==
  \/ \E r \in Reqs : PoolRequest(r)
  \/ \E r \in Reqs : Timeout(r)
  \/ \E i \in Pool : EngineRead(i)
  \/ \E i \in Pool : EngineBestmove(i)

SpecPool == Init /\ [][PoolNext]_vars

(***************************************************************************)
(* Decoding one transcript: a request has been dispatched on the only      *)
(* instance of the pool, the engine has searched, and its output reaches   *)
(* the server cut into chunks at any place.                                *)
(***************************************************************************)
\* the request bodies whose decoding is checked
DecodeBodies ==
  { [fen |-> Fen1, timeLimit |-> 500, depth |-> 22, multiPv |-> m] : m \in 1..5 }

\* the request bodies whose reported depth is checked
DepthBodies ==
  { [fen |-> Fen1, timeLimit |-> 500, depth |-> d] : d \in {1, 30, 40} }
    \cup { [fen |-> Fen2, skillLevel |-> 30] }

\* the request bodies whose time limit is checked: negative, zero, within
\* range, the maximum, and above it
TimeBodies ==
  { [fen |-> Fen1, timeLimit |-> t] : t \in {-5, 0, 500, maxTimeLimit, 40000} }

\* the request bodies whose tier is checked: every skill level around the
\* five tiers
SkillBodies ==
  { [fen |-> Fen1, timeLimit |-> 500, skillLevel |-> s] : s \in -1..31 }

\* the sequences of at most n multipv indices out of 1..m
RECURSIVE IndexSeqs(_, _)
IndexSeqs(m, n) ==
  IF n = 0 THEN { << >> }
  ELSE LET shorter == IndexSeqs(m, n - 1)
       IN shorter \cup {Append(ps, p) : ps \in shorter, p \in 1..m}

\* what a search of the position to the depth writes when it reports the
\* lines ps while it deepens: the last line at the depth, the one before at
\* depth - 1, and so on; then its bestmove line
RECURSIVE InfoLines(_, _, _, _)
InfoLines(fen, depth, ps, k) ==
  IF k > Len(ps) THEN ""
  ELSE InfoText(Max(1, depth - (Len(ps) - k)), ps[k], fen)
         \o InfoLines(fen, depth, ps, k + 1)

Transcript(fen, depth, ps) == InfoLines(fen, depth, ps, 1) \o BestmoveText(fen)

\* the transcripts that are cut at any character: no line, or one line
CutSeqs == { << >>, << 1 >> }

\* the server once the only instance of its pool has answered readyok
ReadyNode == ReadyListener(InitialNode(1), 0, "readyok\n").node

\* the searches whose transcript is decoded: cut at the ends of lines for the
\* bodies that ask for one to five lines, for those that ask for a depth and
\* for those that ask for a time limit, cut at any character for the short
\* transcripts; random is the draw of Math.random() of getThinkingTime
Decodings ==
  UNION { {[body |-> body, ps |-> ps, cuts |-> "lines", random |-> 0] :
             ps \in IndexSeqs(actualMultiPv(body), MaxLines)} :
          body \in DecodeBodies }
    \cup UNION { {[body |-> body, ps |-> ps, cuts |-> "lines", random |-> 0] :
                   ps \in IndexSeqs(actualMultiPv(body), 1)} :
                body \in DepthBodies }
    \cup { [body |-> body, ps |-> ps, cuts |-> "lines", random |-> random] :
            body \in TimeBodies, ps \in CutSeqs, random \in RandomTenths }
    \cup { [body |-> body, ps |-> ps, cuts |-> "lines", random |-> 0] :
            body \in SkillBodies, ps \in CutSeqs }
    \cup { [body |-> [fen |-> Fen1, timeLimit |-> 500, depth |-> 22],
            ps |-> ps, cuts |-> "any", random |-> 0] : ps \in CutSeqs }

\* request 1 has been dispatched on a pool of one instance and the engine has
\* written the transcript of its search
DecodeInit ==
  \E d \in Decodings :
    \E N \in {PostBestmove([ReadyNode EXCEPT !.reqBody[1] = d.body],
                            1, d.body, d.random)},
       text \in {Transcript(d.body.fen, actualDepth(d.body), d.ps)} :
      /\ NodeIs(N)
      /\ alive = [i \in {0} |-> TRUE]
      /\ consumed = [i \in {0} |-> Len(N.stdin[0])]
      /\ position = [i \in {0} |-> d.body.fen]
      /\ multiPV = [i \in {0} |-> actualMultiPv(d.body)]
      /\ search = [i \in {0} |-> Idle]
      /\ pending = [whole |-> text, rest |-> text, chunks |-> MaxChunks,
                    cuts |-> d.cuts]

\* where the next chunk may end: after any character; or after the first
\* line or the last
CutPoints(p) ==
  IF p.cuts = "any"
    THEN IF p.chunks = 1 THEN {Len(p.rest)} ELSE 1..Len(p.rest)
    ELSE {RunEndNot(p.rest, 1, {"\n"}), Len(p.rest)}

\* the next chunk of the transcript arrives
DecodeChunk ==
  /\ pending.rest # ""
  /\ \E k \in CutPoints(pending) :
       /\ StdoutData(0, SubSeq(pending.rest, 1, k), 1)
       /\ pending' = [pending EXCEPT
                        !.rest = SubSeq(@, k + 1, Len(@)),
                        !.chunks = IF pending.cuts = "any" THEN @ - 1 ELSE @]
  /\ UNCHANGED engineVars

DecodeNext == DecodeChunk

SpecDecode == DecodeInit /\ [][DecodeNext]_vars

(***************************************************************************)
(* Properties.                                                             *)
(***************************************************************************)
\* a request is in flight from its acquire step until its release
InFlight(r) == pc[r] \in {"waitReady", "awaitBest"}

Holders(i) == {r \in Reqs : InFlight(r) /\ req[r].engineIndex = i}

NoFen(body) == "fen" \notin DOMAIN body \/ body.fen = ""

\* the indices of the commands of kind that request r wrote to instance i
Written(i, r, kind) ==
  {k \in 1..Len(stdin[i]) : stdin[i][k].by = r /\ stdin[i][k].kind = kind}

\* C1: every instance has at most one request in flight.
C1_OneInFlight == \A i \in Pool : Cardinality(Holders(i)) <= 1

\* C2: the lines that built the result of a finished request all come from
\* the search of that request, and from its first command to its bestmove no
\* other request wrote to its instance.
C2_OwnOutputOnly ==
  \A r \in Reqs :
    pc[r] = "done" =>
      LET i == req[r].engineIndex
          mine == {k \in 1..Len(stdin[i]) : stdin[i][k].by = r}
      IN /\ heard[r] \subseteq {r}
         /\ \A k \in Least(mine)..resolvedAt[r].len : stdin[i][k].by = r

\* C3: a request that has a FEN gets an instance of the pool, whatever the
\* size of the pool: it never ends in the catch path, and the cursor stays an
\* index of the pool.
C3_AcquireNeverFails ==
  \A r \in Reqs :
    (pc[r] # "idle" /\ ~NoFen(reqBody[r])) =>
      /\ pc[r] # "error"
      /\ req[r].engineIndex \in Pool
      /\ currentEngineIndex \in Pool

\* every request has arrived, no timer is armed, and every engine is running,
\* has read all its input and has ended its searches: nothing more happens
Quiet ==
  /\ \A r \in 1..MaxRequests : pc[r] # "idle" /\ timeout[r] # "armed"
  /\ \A i \in Pool :
       alive[i] /\ consumed[i] = Len(stdin[i]) /\ ~search[i].active

\* C4: when the engines have answered every command, every request that
\* acquired an instance has resolved and released it.
C4_ResolvedWhenQuiet ==
  Quiet =>
    \A r \in Reqs :
      /\ ~InFlight(r)
      /\ pc[r] = "done" =>
           /\ ~enginePool[req[r].engineIndex].busy
           /\ timeout[r] # "armed"
           /\ \A k \in 1..Len(listeners[req[r].engineIndex]) :
                listeners[req[r].engineIndex][k] # r

\* C5: a request whose timer wrote stop resolves with the move of the
\* bestmove line that follows, and nothing is written to its instance between
\* the stop and the resolution.
C5_StopThenResolve ==
  \A r \in Reqs :
    (pc[r] = "done" /\ timeout[r] = "fired") =>
      LET i == req[r].engineIndex
      IN /\ \A k \in Written(i, r, "stop") : resolvedAt[r].len = k
         /\ resolvedAt[r].tag = r =>
              handler[r].result.bestMove.move = Split(EngineLines(req[r].fen)[1])[1]

\* what the decoder yields when the whole transcript arrives as one chunk
WholeResult == dataHandler(NewHandler, pending.whole, req[1].depth).result

\* C6: however the transcript is cut into chunks, the request resolves, with
\* the result of the transcript in one chunk.
C6_ChunkingIndependent ==
  pending.cuts = "any" =>
    /\ handler[1].resolved => handler[1].result = WholeResult
    /\ pending.rest = "" => handler[1].resolved

\* C7: release writes ucinewgame and isready, and on every input stream a
\* position command has a ucinewgame before it that no other position
\* command follows.
C7_NewGameBeforePosition ==
  /\ \A r \in Reqs :
       pc[r] = "done" =>
         \E k \in Written(req[r].engineIndex, r, "ucinewgame") :
           (k + 1) \in Written(req[r].engineIndex, r, "isready")
  /\ \A i \in Pool :
       \A k \in 1..Len(stdin[i]) :
         stdin[i][k].kind = "position" =>
           \E g \in 1..(k - 1) :
             /\ stdin[i][g].kind = "ucinewgame"
             /\ \A j \in (g + 1)..(k - 1) : stdin[i][j].kind # "position"

\* C8: a request without a FEN is answered 400 in a step that changes no busy
\* flag, not the cursor and no input stream.
C8_RejectBeforeAcquire ==
  [][\A r \in Reqs :
       (pc[r] = "idle" /\ pc'[r] # "idle" /\ NoFen(reqBody'[r])) =>
         /\ pc'[r] = "rejected"
         /\ response'[r].status = 400
         /\ enginePool' = enginePool
         /\ currentEngineIndex' = currentEngineIndex
         /\ stdin' = stdin]_vars

\* a request without a FEN was rejected while an instance was busy
C8_Witness ==
  \E r \in Reqs : pc[r] = "rejected" /\ \E i \in Pool : enginePool[i].busy

\* C9: the instance of a request that will never resolve, because its engine
\* has exited, has its busy flag cleared.
C9_FaultReleases ==
  \A r \in Reqs :
    (InFlight(r) /\ ~alive[req[r].engineIndex]) =>
      ~enginePool[req[r].engineIndex].busy

NonDecreasing(analysis) ==
  \A k \in 1..(Len(analysis) - 1) : analysis[k].multipv <= analysis[k + 1].multipv

EntriesOf(analysis, n) ==
  {k \in 1..Len(analysis) : analysis[k].multipv = n}

\* C11 as stated: the depth of a response is the depth of the entry of
\* multipv 1 when there is one, and the depth the caller asked for when no
\* line was observed.
C11_RequestedDepth ==
  pc[1] = "done" =>
    LET analysis == response[1].analysis
    IN /\ \A k \in EntriesOf(analysis, 1) : response[1].depth = analysis[k].depth
       /\ analysis = << >> => response[1].depth = req[1].requested.depth

\* C11: the depth of a response is the depth of the entry of the lowest
\* multipv, that of multipv 1 when there is one, and when no line was observed
\* it is the depth sent to the engine: the depth asked for, brought into
\* [minDepth, maxDepth] of the tier of the skill level.
C11_DepthSent ==
  pc[1] = "done" =>
    LET analysis == response[1].analysis
        config == getConfigForSkill(req[1].skillLevel)
        asked == req[1].requested.depth
    IN /\ \A k \in EntriesOf(analysis, 1) : response[1].depth = analysis[k].depth
       /\ analysis # << >> =>
            /\ response[1].depth = analysis[1].depth
            /\ \A k \in 1..Len(analysis) : analysis[1].multipv <= analysis[k].multipv
       /\ analysis = << >> =>
            /\ response[1].depth \in config.minDepth..config.maxDepth
            /\ asked < config.minDepth => response[1].depth = config.minDepth
            /\ asked > config.maxDepth => response[1].depth = config.maxDepth
            /\ asked \in config.minDepth..config.maxDepth =>
                 response[1].depth = asked

\* a response to a transcript of a bestmove line alone, for a depth asked
\* above the tier of the skill level
C11_Witness ==
  /\ pc[1] = "done"
  /\ response[1].analysis = << >>
  /\ req[1].requested.depth = 40
  /\ response[1].depth = 25

\* C12: the time limit of a request, which arms the stop timer and is the
\* movetime of its go command, lies in 0..maxTimeLimit.
C12_TimeLimitInRange ==
  pc[1] # "idle" =>
    /\ req[1].timeLimit \in 0..maxTimeLimit
    /\ \A k \in Written(req[1].engineIndex, 1, "go") :
         LET arg == stdin[req[1].engineIndex][k].arg
         IN "movetime" \in DOMAIN arg => arg.movetime \in 0..maxTimeLimit

\* the values of the Skill Level option that request r wrote to its instance
SkillLevelWritten(r) ==
  {stdin[req[r].engineIndex][k].arg.value :
     k \in {j \in Written(req[r].engineIndex, r, "setoption") :
              stdin[req[r].engineIndex][j].arg.name = "Skill Level"}}

\* C13: the tier of a request is beginner for a skill level up to 8,
\* intermediate for 9..15, advanced for 16..22, expert for 23..28 and master
\* above 28: the request writes the Skill Level of that tier and its response
\* carries the error rate of that tier.
C13_ExactBuckets ==
  \A r \in Reqs :
    pc[r] \in {"awaitBest", "done"} =>
      LET s == req[r].skillLevel
          tier == IF pc[r] = "done"
                    THEN {<< v, response[r].humanSimulation.errorRate >> :
                            v \in SkillLevelWritten(r)}
                    ELSE {<< v, getConfigForSkill(s).errorRate >> :
                            v \in SkillLevelWritten(r)}
      IN /\ s <= 8 => tier = {<< 8, 35 >>}
         /\ s \in 9..15 => tier = {<< 14, 15 >>}
         /\ s \in 16..22 => tier = {<< 20, 5 >>}
         /\ s \in 23..28 => tier = {<< 25, 1 >>}
         /\ s > 28 => tier = {<< 30, 0 >>}

\* the responses to the skill levels 8, 9 and 29
C13_Witness ==
  /\ pc[1] = "done"
  /\ \/ req[1].skillLevel = 8 /\ response[1].humanSimulation.errorRate = 35
     \/ req[1].skillLevel = 9 /\ response[1].humanSimulation.errorRate = 15
     \/ req[1].skillLevel = 29 /\ response[1].humanSimulation.errorRate = 0

\* the info lines of the part of the transcript that has arrived
LinesArrived ==
  MatchAllInfo(SubSeq(pending.whole, 1, Len(pending.whole) - Len(pending.rest)), 1)

\* the last of the lines that carries the multipv n
LastLineOf(lines, n) ==
  lines[CHOOSE k \in 1..Len(lines) :
          /\ ParseInt(lines[k].pvNum) = n
          /\ \A j \in (k + 1)..Len(lines) : ParseInt(lines[j].pvNum) # n]

\* C18: the table of a request holds one entry for each multipv of the lines
\* that have arrived, and no two of the same multipv; each entry is that of
\* the last line of its multipv.
C18_LastWriteWins ==
  LET analysis == handler[1].analysis
  IN /\ \A k \in 1..Len(analysis) :
          EntriesOf(analysis, analysis[k].multipv) = {k}
     /\ pending.cuts = "lines" =>
          /\ {analysis[k].multipv : k \in 1..Len(analysis)}
               = {ParseInt(LinesArrived[k].pvNum) : k \in 1..Len(LinesArrived)}
          /\ \A k \in 1..Len(analysis) :
               analysis[k] = AnalysisEntry(LastLineOf(LinesArrived, analysis[k].multipv))

\* lines of a multipv already in the table have arrived, with a depth other
\* than that of the first
C18_Witness ==
  /\ pending.cuts = "lines"
  /\ Len(LinesArrived) = 4
  /\ Len(handler[1].analysis) = 2
  /\ \E k \in 1..2 : handler[1].analysis[k].depth = 22

\* C16: a request that has written its commands to an instance did so after
\* the readyok of that instance.
C16_WritesOnlyWhenReady ==
  \A r \in Reqs :
    pc[r] \in {"awaitBest", "done"} => isReady[req[r].engineIndex]

\* C17: no request is still suspended on the readiness of an instance whose
\* handshake has completed.
C17_ResumedOnReady ==
  \A r \in Reqs : pc[r] = "waitReady" => ~isReady[req[r].engineIndex]

\* C19: the acquire step never hands a request an instance whose process has
\* exited or failed.
C19_DeadNeverAcquired ==
  [][\A r \in Reqs :
       (pc[r] = "idle" /\ pc'[r] \in {"waitReady", "awaitBest"}) =>
         alive[req'[r].engineIndex]]_vars

\* C20: a request writes stop at most once, after its go, and not after the
\* bestmove line that resolved it, and its timer is not armed once it has
\* resolved.
C20_StopOnceBeforeResolve ==
  \A r \in Reqs :
    LET i == req[r].engineIndex
        stops == IF pc[r] \in {"awaitBest", "done"}
                   THEN Written(i, r, "stop") ELSE {}
    IN /\ Cardinality(stops) <= 1
       /\ \A k \in stops : \E g \in Written(i, r, "go") : g < k
       /\ timeout[r] = "fired" <=> stops # {}
       /\ pc[r] = "done" =>
            /\ timeout[r] # "armed"
            /\ \A k \in stops : k <= resolvedAt[r].len

\* C20: the stop of a request ends no search but its own.
C20_StopsOwnSearch ==
  [][\A i \in Pool :
       (/\ consumed'[i] > consumed[i]
        /\ stdin[i][consumed'[i]].kind = "stop"
        /\ search[i].active) =>
         search[i].by = stdin[i][consumed'[i]].by]_vars

\* request r is handed an instance in this step
Acquires(r) == pc[r] = "idle" /\ pc'[r] \in {"waitReady", "awaitBest"}

\* C14: a request is handed an instance that another request still holds
\* only when the busy flag of every instance is set.
C14_SharedOnlyWhenAllBusy ==
  [][\A r \in Reqs :
       (Acquires(r) /\ Holders(req'[r].engineIndex) # {}) =>
         \A i \in Pool : enginePool[i].busy]_vars

\* the first instance in cyclic order from the cursor whose busy flag is
\* clear
FirstFree ==
  LET n == Cardinality(Pool)
      free == {j \in 0..(n - 1) : ~enginePool[(currentEngineIndex + j) % n].busy}
  IN (currentEngineIndex + Least(free)) % n

\* a request that arrives while an instance is free is handed the first free
\* instance from the cursor, only the busy flag of that instance changes, and
\* the cursor moves just behind it
AcquiresFirstFree ==
  \A r \in Reqs :
    (Acquires(r) /\ \E i \in Pool : ~enginePool[i].busy) =>
      /\ req'[r].engineIndex = FirstFree
      /\ enginePool' = [enginePool EXCEPT ![FirstFree].busy = TRUE]
      /\ currentEngineIndex' = (FirstFree + 1) % Cardinality(Pool)

====
